---- MODULE Spec2Model ----
(***************************************************************************)
(* NotationPlayback (src/notation/internal/notationplayback.cpp): the loop *)
(* boundary controller, the total play time cache and the reactions to the *)
(* score and configuration notifications.                                  *)
(*                                                                         *)
(* The score document, the playback model and the configuration are        *)
(* collaborators; what this file needs of them is modelled below and is    *)
(* marked as such in the model map.                                        *)
(***************************************************************************)
EXTENDS Integers, Sequences, FiniteSets, TLC

(* ------------------------------ bounds -------------------------------- *)
\* largest end tick of the last measure of a modelled score
MaxLastTick == 2
\* largest length (in ticks) of the input-state duration
MaxInputTicks == 2
\* largest number of u-ticks that expanding the repeats adds
MaxRepeatExtra == 2
\* largest number of seconds per tick of a modelled tempo map
MaxSecsPerTick == 2
\* number of value-flipping setLoopBoundariesEnabled calls that are counted
MaxEnableFlips == 2

(* ----------------------------- constants ------------------------------ *)
PLAYBACK_TAIL_SECS == 3
\* BoundaryTick sentinels of addLoopBoundary / addLoopIn / addLoopOut
FirstScoreTick == -3
SelectedNoteTick == -2
LastScoreTick == -1
\* ticks of a whole note (Constants::DIVISION * 4)
WholeNoteTicks == 1920

(* ------------------------------ Fraction ------------------------------ *)
Abs(x) == IF x < 0 THEN -x ELSE x

RECURSIVE GCD(_, _)
GCD(a, b) == IF b = 0 THEN a ELSE GCD(b, a % b)

\* Fraction(n, d).reduced()
Reduced(n, d) ==
    LET g == GCD(Abs(n), Abs(d))
    IN  IF g = 0 THEN [n |-> n, d |-> d] ELSE [n |-> n \div g, d |-> d \div g]

\* Fraction::fromTicks
FromTicks(t) == Reduced(t, WholeNoteTicks)

\* Fraction::ticks, rounded to the nearest tick, symmetric in the sign
Ticks(f) ==
    LET sgn == IF f.n < 0 THEN -1 ELSE 1
    IN  sgn * ((sgn * f.n * WholeNoteTicks + (f.d \div 2)) \div f.d)

FracGE(a, b) == a.n * b.d >= b.n * a.d
FracLE(a, b) == a.n * b.d <= b.n * a.d
FracGT(a, b) == a.n * b.d > b.n * a.d
FracAdd(a, b) == Reduced(a.n * b.d + b.n * a.d, a.d * b.d)

(* ------------------------------- state -------------------------------- *)
VARIABLES
    loaded,          \* m_getScore->score() is not null
    inited,          \* init() has subscribed the channels
    lastTick,        \* score: end tick of the last measure
    repeatExtra,     \* score: u-ticks added by expanding the repeats
    secsPerTick,     \* score: tempo map, seconds per u-tick
    scoreLoopIn,     \* score: stored loop-in marker (Fraction)
    scoreLoopOut,    \* score: stored loop-out marker (Fraction)
    m_loopBoundaries,\* controller: [loopInTick, loopOutTick, enabled]
    m_totalPlayTime, \* cached total play time, seconds
    config,          \* configuration flags
    pm,              \* playback model's copies of the flags
    pending,         \* configuration notifications not yet handled
    pristine,        \* no boundary operation or notification happened yet
    enableFlips,     \* setLoopBoundariesEnabled: calls whose flag differed
                     \* from the stored value
    enableNotifies,  \* ... notifications raised by all its calls
    last,            \* what the last operation was given and what it raised
    soundFlags,      \* score: the sound flags each staff text carries
    tempoMul,        \* score: the tempo map's tempo multiplier
    res              \* what the last query or routing call returned and did

vars == << loaded, inited, lastTick, repeatExtra, secsPerTick, scoreLoopIn,
           scoreLoopOut, m_loopBoundaries, m_totalPlayTime, config, pm,
           pending, pristine, enableFlips, enableNotifies, last,
           soundFlags, tempoMul, res >>

scoreVars == << lastTick, repeatExtra, secsPerTick >>
timeVars == << m_totalPlayTime, config, pm, pending >>
enableVars == << enableFlips, enableNotifies >>
extVars == << soundFlags, tempoMul, res >>

FlagNames == {"playRepeats", "playChordSymbols", "previewDynamics", "metronome"}

\* m_loopBoundaries as the constructor leaves it: the constructor names no
\* initialiser for it and init() does not assign it, so it is a
\* default-constructed LoopBoundaries (both ticks 0, disabled), a value that
\* does not depend on the score
DefaultLoopBoundaries == [loopInTick |-> 0, loopOutTick |-> 0, enabled |-> FALSE]

\* the record kept of the last operation: its name, the tick it worked with,
\* the tuples seen at the loopBoundariesChanged() notifications it raised, the
\* values it sent on totalPlayTimeChanged(), and how often it recomputed the
\* total play time and reloaded the playback model
NoOp == [op |-> "none", tick |-> 0, arg |-> FALSE, notes |-> << >>,
         sent |-> << >>, recomputed |-> 0, reloads |-> 0]

(* ------------------------- the score's markers ------------------------ *)
\* lastMeasure()->endTick()
EndTick == FromTicks(lastTick)
\* firstMeasure()->tick()
FirstTick == FromTicks(0)

\* The working state of one call: the score's markers, the controller's
\* tuple and the tuples the listeners of loopBoundariesChanged() saw.
Machine == [in |-> scoreLoopIn, out |-> scoreLoopOut,
            lb |-> m_loopBoundaries, notes |-> << >>]

\* the same as updateLoopBoundaries, resetting the enabled flag
UpdateLoopBoundariesResetEnabled(m) ==
    LET newBoundaries == [loopInTick |-> Ticks(m.in),
                          loopOutTick |-> Ticks(m.out),
                          enabled |-> FALSE]
    IN  IF m.lb # newBoundaries
        THEN [m EXCEPT !.lb = newBoundaries, !.notes = Append(@, newBoundaries)]
        ELSE m

UpdateLoopBoundaries(m) ==
    LET newBoundaries == [loopInTick |-> Ticks(m.in),
                          loopOutTick |-> Ticks(m.out),
                          enabled |-> m.lb.enabled]
    IN  IF m.lb # newBoundaries
        THEN [m EXCEPT !.lb = newBoundaries, !.notes = Append(@, newBoundaries)]
        ELSE m

\* score()->loopBoundaryTickChanged(): received once init() has subscribed
LoopBoundaryTickChanged(m) == IF inited THEN UpdateLoopBoundaries(m) ELSE m

\* Score::setLoopInTick / Score::setLoopOutTick: store the marker, then send
\* on the loop-boundary-tick-changed channel
SetLoopInTick(m, tick) == LoopBoundaryTickChanged([m EXCEPT !.in = tick])
SetLoopOutTick(m, tick) == LoopBoundaryTickChanged([m EXCEPT !.out = tick])

(* --------------------------- loop boundaries -------------------------- *)
\* the tick addLoopIn works with
LoopInTickOf(_tick, pos) ==
    IF _tick = SelectedNoteTick THEN pos ELSE FromTicks(_tick)

\* the tick addLoopOut works with, before the clamp
LoopOutTickOf(_tick, pos, inputTicks) ==
    IF _tick = SelectedNoteTick THEN FracAdd(pos, inputTicks) ELSE FromTicks(_tick)

\* the same as addLoopIn, with > for >=
AddLoopInStrict(m, _tick, pos) ==
    LET tick == LoopInTickOf(_tick, pos)
        m1 == IF FracGT(tick, m.out) THEN SetLoopOutTick(m, EndTick) ELSE m
    IN  SetLoopInTick(m1, tick)

addLoopIn(m, _tick, pos) ==
    LET tick == LoopInTickOf(_tick, pos)
        m1 == IF FracGE(tick, m.out) THEN SetLoopOutTick(m, EndTick) ELSE m
    IN  SetLoopInTick(m1, tick)

\* the same as addLoopOut, without the clamp to the end of the score
AddLoopOutNoClamp(m, _tick, pos, inputTicks) ==
    LET tick == LoopOutTickOf(_tick, pos, inputTicks)
        m1 == IF FracLE(tick, m.in) THEN SetLoopInTick(m, FromTicks(0)) ELSE m
    IN  SetLoopOutTick(m1, tick)

\* the same as addLoopOut, clamping on both branches
AddLoopOutClampBoth(m, _tick, pos, inputTicks) ==
    LET tick == LoopOutTickOf(_tick, pos, inputTicks)
        reset == FracLE(tick, m.in)
        m1 == IF reset THEN SetLoopInTick(m, FromTicks(0)) ELSE m
        tick1 == IF FracGT(tick, EndTick) THEN EndTick ELSE tick
    IN  SetLoopOutTick(m1, tick1)

addLoopOut(m, _tick, pos, inputTicks) ==
    LET tick == LoopOutTickOf(_tick, pos, inputTicks)
        reset == FracLE(tick, m.in)
        m1 == IF reset THEN SetLoopInTick(m, FromTicks(0)) ELSE m
        tick1 == IF ~reset /\ FracGT(tick, EndTick) THEN EndTick ELSE tick
    IN  SetLoopOutTick(m1, tick1)

\* the tick addLoopBoundary dispatches with
BoundaryTickOf(tick) ==
    IF tick = FirstScoreTick THEN Ticks(FirstTick)
    ELSE IF tick = LastScoreTick THEN Ticks(EndTick)
    ELSE tick

\* the same as addLoopBoundary, passing the sentinels on as they are
AddLoopBoundaryUnresolved(m, boundaryType, tick, pos, inputTicks) ==
    CASE boundaryType = "LoopIn" -> addLoopIn(m, tick, pos)
      [] boundaryType = "LoopOut" -> addLoopOut(m, tick, pos, inputTicks)
      [] OTHER -> m

addLoopBoundary(m, boundaryType, tick, pos, inputTicks) ==
    LET t == BoundaryTickOf(tick)
    IN  CASE boundaryType = "LoopIn" -> addLoopIn(m, t, pos)
          [] boundaryType = "LoopOut" -> addLoopOut(m, t, pos, inputTicks)
          [] OTHER -> m

\* the same as setLoopBoundariesEnabled, without the early return
SetLoopBoundariesEnabledAlways(m, enabled) ==
    LET lb == [m.lb EXCEPT !.enabled = enabled]
    IN  [m EXCEPT !.lb = lb, !.notes = Append(@, lb)]

setLoopBoundariesEnabled(m, enabled) ==
    IF m.lb.enabled = enabled
    THEN m
    ELSE LET lb == [m.lb EXCEPT !.enabled = enabled]
         IN  [m EXCEPT !.lb = lb, !.notes = Append(@, lb)]

(* ---------------------------- total play time ------------------------- *)
\* what m_getScore->score() gives: whether there is a score, and its content
ScoreNow == [loaded |-> loaded, lastTick |-> lastTick,
             repeatExtra |-> repeatExtra, secsPerTick |-> secsPerTick]

\* score->repeatList(expandRepeats).ticks()
RepeatListTicks(score, expandRepeats) ==
    IF expandRepeats THEN score.lastTick + score.repeatExtra ELSE score.lastTick

\* score->utick2utime(utick)
UTick2UTime(score, utick) == utick * score.secsPerTick

\* The working state of the play-time side of one call: the score, the cache,
\* the values sent on totalPlayTimeChanged(), the recomputations and the
\* reloads.
TimeMachine == [score |-> ScoreNow, total |-> m_totalPlayTime, sent |-> << >>,
                recomputed |-> 0, reloads |-> 0]

\* the same as updateTotalPlayTime, without the tail
UpdateTotalPlayTimeNoTail(t, model) ==
    IF ~t.score.loaded
    THEN [t EXCEPT !.recomputed = @ + 1]
    ELSE LET lastUTick == RepeatListTicks(t.score, model.playRepeats)
             newPlayTime == UTick2UTime(t.score, lastUTick)
         IN  IF t.total = newPlayTime
             THEN [t EXCEPT !.recomputed = @ + 1]
             ELSE [t EXCEPT !.recomputed = @ + 1, !.total = newPlayTime,
                            !.sent = Append(@, newPlayTime)]

UpdateTotalPlayTime(t, model) ==
    IF ~t.score.loaded
    THEN [t EXCEPT !.recomputed = @ + 1]
    ELSE LET lastUTick == RepeatListTicks(t.score, model.playRepeats)
             newPlayTime == UTick2UTime(t.score, lastUTick) + PLAYBACK_TAIL_SECS
         IN  IF t.total = newPlayTime
             THEN [t EXCEPT !.recomputed = @ + 1]
             ELSE [t EXCEPT !.recomputed = @ + 1, !.total = newPlayTime,
                            !.sent = Append(@, newPlayTime)]

\* m_playbackModel.dataChanged(): received once init() has subscribed
DataChanged(t, model) == IF inited THEN UpdateTotalPlayTime(t, model) ELSE t

\* m_playbackModel.reload(): rebuilds the data and notifies dataChanged()
PlaybackModelReload(t, model) ==
    DataChanged([t EXCEPT !.reloads = @ + 1], model)

\* the same as the isPlayRepeatsChanged handler, without the reload
OnPlayRepeatsChangedNoReload(t, model, cfg) ==
    LET expandRepeats == cfg.playRepeats
    IN  IF expandRepeats # model.playRepeats
        THEN [t |-> t, model |-> [model EXCEPT !.playRepeats = expandRepeats]]
        ELSE [t |-> t, model |-> model]

\* the same as the isPlayRepeatsChanged handler, reloading without setting
\* the model's flag
OnPlayRepeatsChangedKeepFlag(t, model, cfg) ==
    LET expandRepeats == cfg.playRepeats
    IN  IF expandRepeats # model.playRepeats
        THEN [t |-> PlaybackModelReload(t, model), model |-> model]
        ELSE [t |-> t, model |-> model]

\* the handler init() subscribes to configuration()->isPlayRepeatsChanged()
OnPlayRepeatsChanged(t, model, cfg) ==
    LET expandRepeats == cfg.playRepeats
    IN  IF expandRepeats # model.playRepeats
        THEN LET model1 == [model EXCEPT !.playRepeats = expandRepeats]
             IN  [t |-> PlaybackModelReload(t, model1), model |-> model1]
        ELSE [t |-> t, model |-> model]

\* the handler init() subscribes to
\* configuration()->isPlayChordSymbolsChanged()
OnPlayChordSymbolsChanged(t, model, cfg) ==
    LET playChordSymbols == cfg.playChordSymbols
    IN  IF playChordSymbols # model.playChordSymbols
        THEN LET model1 == [model EXCEPT !.playChordSymbols = playChordSymbols]
             IN  [t |-> PlaybackModelReload(t, model1), model |-> model1]
        ELSE [t |-> t, model |-> model]

\* the handler init() subscribes to
\* configuration()->playPreviewNotesWithScoreDynamicsChanged()
OnPreviewDynamicsChanged(t, model, cfg) ==
    LET useScoreDynamics == cfg.previewDynamics
    IN  IF useScoreDynamics # model.previewDynamics
        THEN [t |-> t, model |-> [model EXCEPT !.previewDynamics = useScoreDynamics]]
        ELSE [t |-> t, model |-> model]

\* the same as the isMetronomeEnabledChanged handler, with a reload
OnMetronomeEnabledChangedReload(t, model, cfg) ==
    LET metronomeEnabled == cfg.metronome
    IN  IF metronomeEnabled # model.metronome
        THEN LET model1 == [model EXCEPT !.metronome = metronomeEnabled]
             IN  [t |-> PlaybackModelReload(t, model1), model |-> model1]
        ELSE [t |-> t, model |-> model]

\* the handler init() subscribes to
\* configuration()->isMetronomeEnabledChanged()
OnMetronomeEnabledChanged(t, model, cfg) ==
    LET metronomeEnabled == cfg.metronome
    IN  IF metronomeEnabled # model.metronome
        THEN [t |-> t, model |-> [model EXCEPT !.metronome = metronomeEnabled]]
        ELSE [t |-> t, model |-> model]

(* ------------------------- play position and tempo -------------------- *)
\* Ret<T>: make_ret(Err::Undefined), or the value
Undefined == [ok |-> FALSE, val |-> 0]
RetOk(v) == [ok |-> TRUE, val |-> v]

\* score->repeatList(expandRepeats): the segments in playing order.  With
\* expansion the first tick of the score is played repeatExtra more times
\* before the pass to the end; without it the list is one segment.
RepeatSegments(score, expandRepeats) ==
    IF expandRepeats
    THEN [i \in 1 .. (score.repeatExtra + 1) |->
            IF i <= score.repeatExtra
            THEN [tick |-> 0, utick |-> i - 1, len |-> 1]
            ELSE [tick |-> 0, utick |-> score.repeatExtra, len |-> score.lastTick]]
    ELSE << [tick |-> 0, utick |-> 0, len |-> score.lastTick] >>

\* RepeatList::tick2utick(tick)
Tick2UTick(segments, tick) ==
    IF tick < 0 \/ segments = << >>
    THEN 0
    ELSE LET hits == {i \in DOMAIN segments :
                        /\ tick >= segments[i].tick
                        /\ tick < segments[i].tick + segments[i].len}
             lastSeg == segments[Len(segments)]
         IN  IF hits # {}
             THEN LET i == CHOOSE i \in hits : \A j \in hits : i <= j
                  IN  segments[i].utick + (tick - segments[i].tick)
             ELSE lastSeg.utick + (tick - lastSeg.tick)

\* the same as playPositionTickByRawTick, always with the expanded list
PlayPositionTickByRawTickExpanded(score, model, tick) ==
    IF ~score.loaded
    THEN Undefined
    ELSE RetOk(Tick2UTick(RepeatSegments(score, TRUE), tick))

playPositionTickByRawTick(score, model, tick) ==
    IF ~score.loaded
    THEN Undefined
    ELSE RetOk(Tick2UTick(RepeatSegments(score, model.playRepeats), tick))

\* the elements a caller passes: a null pointer, or an element at a tick
NullElement == [null |-> TRUE, tick |-> FromTicks(0)]
ElementAt(tick) == [null |-> FALSE, tick |-> FromTicks(tick)]

playPositionTickByElement(score, model, element) ==
    IF element.null
    THEN Undefined
    ELSE IF ~score.loaded
    THEN Undefined
    ELSE playPositionTickByRawTick(score, model, Ticks(element.tick))

\* The tempo multiplier in halves: TempoUnit is the tempo as written.
TempoUnit == 2

\* TempoMap::setTempoMultiplier(val): refuses a multiplier that is not
\* positive
TempoMapSetTempoMultiplier(cur, val) ==
    IF val <= 0 THEN [ok |-> FALSE, mul |-> cur] ELSE [ok |-> TRUE, mul |-> val]

\* MasterScore::updateRepeatListTempo(): the times of the u-ticks under the
\* new multiplier
UpdateRepeatListTempo(score, oldMul, newMul) ==
    [score EXCEPT !.secsPerTick = (@ * oldMul) \div newMul]

\* the same as setTempoMultiplier, whatever the tempo map answers
SetTempoMultiplierUnchecked(t, model, mul, multiplier) ==
    IF ~t.score.loaded
    THEN [t |-> t, mul |-> mul, log |-> << >>]
    ELSE LET t1 == [t EXCEPT !.score = UpdateRepeatListTempo(@, mul, IF multiplier <= 0 THEN mul ELSE multiplier)]
         IN  [t |-> PlaybackModelReload(t1, model),
              mul |-> IF multiplier <= 0 THEN mul ELSE multiplier,
              log |-> << "updateRepeatListTempo", "reload" >>]

setTempoMultiplier(t, model, mul, multiplier) ==
    IF ~t.score.loaded
    THEN [t |-> t, mul |-> mul, log |-> << >>]
    ELSE LET r == TempoMapSetTempoMultiplier(mul, multiplier)
         IN  IF ~r.ok
             THEN [t |-> t, mul |-> mul, log |-> << >>]
             ELSE LET t1 == [t EXCEPT !.score = UpdateRepeatListTempo(@, mul, r.mul)]
                  IN  [t |-> PlaybackModelReload(t1, model),
                       mul |-> r.mul,
                       log |-> << "updateRepeatListTempo", "reload" >>]

(* ------------------------- conversions and queries -------------------- *)
\* score->utime2utick(sec): the last u-tick that starts at or before sec
UTime2UTick(score, sec) ==
    LET uticks == {u \in 0 .. (score.lastTick + score.repeatExtra) :
                      UTick2UTime(score, u) <= sec}
    IN  IF uticks = {} THEN 0 ELSE CHOOSE u \in uticks : \A v \in uticks : v <= u

\* RepeatList::utick2tick(utick)
UTick2Tick(segments, utick) ==
    IF utick < 0 \/ segments = << >>
    THEN 0
    ELSE LET hits == {i \in DOMAIN segments :
                        /\ utick >= segments[i].utick
                        /\ utick < segments[i].utick + segments[i].len}
             lastSeg == segments[Len(segments)]
         IN  IF hits # {}
             THEN LET i == CHOOSE i \in hits : \A j \in hits : i <= j
                  IN  segments[i].tick + (utick - segments[i].utick)
             ELSE lastSeg.tick + (utick - lastSeg.utick)

playedTickToSec(score, tick) ==
    IF score.loaded THEN UTick2UTime(score, tick) ELSE 0

secToPlayedTick(score, sec) ==
    IF ~score.loaded THEN 0 ELSE UTime2UTick(score, sec)

secToTick(score, model, sec) ==
    IF ~score.loaded
    THEN 0
    ELSE LET utick == secToPlayedTick(score, sec)
         IN  UTick2Tick(RepeatSegments(score, model.playRepeats), utick)

\* MeasureBeat as default-constructed
DefaultMeasureBeat ==
    [measureIndex |-> 0, maxMeasureIndex |-> 0, beat |-> 0, maxBeatIndex |-> 0]

\* beat(tick): the measures of the modelled score are one tick long and have
\* one beat
beat(score, tick) ==
    IF score.loaded /\ score.lastTick > 0
    THEN [measureIndex |-> IF tick < score.lastTick THEN tick ELSE score.lastTick - 1,
          maxMeasureIndex |-> score.lastTick - 1,
          beat |-> 0,
          maxBeatIndex |-> 0]
    ELSE DefaultMeasureBeat

beatToRawTick(score, measureIndex, beatIndex) ==
    IF score.loaded THEN measureIndex ELSE 0

\* the tempo as written, in beats per minute
WrittenBpm == 120

\* multipliedTempo(tick).valueBpm; the static empty Tempo has 0
multipliedTempo(score, mul, tick) ==
    IF ~score.loaded THEN 0 ELSE (WrittenBpm * mul) \div TempoUnit

tempoMultiplier(score, mul) ==
    IF score.loaded THEN mul ELSE TempoUnit

(* --------------------------- controller events ------------------------ *)
\* score()->staff(staffIdx): the staves of the score, and the part of each
NumStaves == 2
NoStaff == -1
StaffOf(staffIdx) == IF staffIdx \in 0 .. (NumStaves - 1) THEN staffIdx ELSE NoStaff
PartOf(staff) == IF staff = 0 THEN "P1" ELSE "P2"
\* part->instrumentId(tick): part P1 changes its instrument at tick 1
InstrumentIdAt(part, tick) ==
    IF part = "P1"
    THEN IF FracGE(tick, FromTicks(1)) THEN "piccolo" ELSE "flute"
    ELSE "oboe"

\* the same as triggerControllers, without the test of the list
TriggerControllersAlways(list, staffIdx, tick) ==
    LET staff == StaffOf(staffIdx)
    IN  IF staff = NoStaff
        THEN << >>
        ELSE LET part == PartOf(staff)
                 trackId == << part, InstrumentIdAt(part, FromTicks(tick)) >>
                 events == [offset \in {0} |-> list]
             IN  << [track |-> trackId, events |-> events, flush |-> FALSE] >>

\* triggerControllers: the sends on the offstream channels, in order
triggerControllers(list, staffIdx, tick) ==
    IF list = << >>
    THEN << >>
    ELSE LET staff == StaffOf(staffIdx)
         IN  IF staff = NoStaff
             THEN << >>
             ELSE LET part == PartOf(staff)
                      trackId == << part, InstrumentIdAt(part, FromTicks(tick)) >>
                      events == [offset \in {0} |-> list]
                  IN  << [track |-> trackId, events |-> events, flush |-> FALSE] >>

(* ------------------------- the score's annotations -------------------- *)
\* The annotations of the modelled score.  1, 2: a staff text and its linked
\* copy on another instrument's staff; 3: a staff text whose linked copy 5
\* lives in a part score, outside this score's segments; 4: an annotation
\* that is no staff text; 6: a staff text without links.
Annotations == 1 .. 6
NullText == 0
Kind == [a \in Annotations |-> IF a = 4 THEN "Dynamic" ELSE "StaffText"]
StaffTexts == {a \in Annotations : Kind[a] = "StaffText"}
\* makeInstrumentTrackId(annotation)
TrackIds == {"flute", "oboe"}
TrackOf == [a \in Annotations |-> IF a \in {2, 6} THEN "oboe" ELSE "flute"]
\* staffText->links(): the linked objects, the staff text among them; the
\* empty set stands for no links
LinksOf == [a \in Annotations |->
              IF a \in {1, 2} THEN {1, 2}
              ELSE IF a \in {3, 5} THEN {3, 5}
              ELSE {}]
\* seg->annotations() of the chord/rest segments, from firstMeasure() on
SegmentAnnotations == << << 4, 1 >>, << 2, 3 >>, << 6 >> >>

\* staffText->hasSoundFlag()
HasSoundFlag(flags, a) == flags[a] > 0

\* the same as collectStaffText, without the test of the track
CollectStaffTextAnyTrack(flags, trackIdSet, withSoundFlags) ==
    IF trackIdSet = {} \/ ~loaded
    THEN [result |-> << >>, scanned |-> 0]
    ELSE LET Keep(a) == /\ Kind[a] = "StaffText"
                        /\ HasSoundFlag(flags, a) = withSoundFlags
             Scan[i \in 0 .. Len(SegmentAnnotations)] ==
                 IF i = 0 THEN << >>
                 ELSE Scan[i - 1] \o SelectSeq(SegmentAnnotations[i], Keep)
         IN  [result |-> Scan[Len(SegmentAnnotations)],
              scanned |-> Len(SegmentAnnotations)]

collectStaffText(flags, trackIdSet, withSoundFlags) ==
    IF trackIdSet = {} \/ ~loaded
    THEN [result |-> << >>, scanned |-> 0]
    ELSE LET Keep(a) == /\ Kind[a] = "StaffText"
                        /\ HasSoundFlag(flags, a) = withSoundFlags
                        /\ TrackOf[a] \in trackIdSet
             Scan[i \in 0 .. Len(SegmentAnnotations)] ==
                 IF i = 0 THEN << >>
                 ELSE Scan[i - 1] \o SelectSeq(SegmentAnnotations[i], Keep)
         IN  [result |-> Scan[Len(SegmentAnnotations)],
              scanned |-> Len(SegmentAnnotations)]

\* the same as doAddSoundFlag, without the test for a flag that is there
DoAddSoundFlagAgain(flags, staffText) ==
    IF staffText = NullText
    THEN [flags |-> flags, added |-> FALSE]
    ELSE [flags |-> [a \in DOMAIN flags |->
                       IF a = staffText \/ (a \in LinksOf[staffText] /\ Kind[a] = "StaffText")
                       THEN flags[a] + 1 ELSE flags[a]],
          added |-> TRUE]

\* the same as doAddSoundFlag, leaving the linked staff texts alone
DoAddSoundFlagUnlinked(flags, staffText) ==
    IF staffText = NullText \/ HasSoundFlag(flags, staffText)
    THEN [flags |-> flags, added |-> FALSE]
    ELSE [flags |-> [flags EXCEPT ![staffText] = @ + 1], added |-> TRUE]

doAddSoundFlag(flags, staffText) ==
    IF staffText = NullText
    THEN [flags |-> flags, added |-> FALSE]
    ELSE IF HasSoundFlag(flags, staffText)
    THEN [flags |-> flags, added |-> FALSE]
    ELSE [flags |-> [a \in DOMAIN flags |->
                       IF a = staffText
                       THEN flags[a] + 1
                       ELSE IF /\ a \in LinksOf[staffText]
                               /\ Kind[a] = "StaffText"
                       THEN flags[a] + 1
                       ELSE flags[a]],
          added |-> TRUE]

\* the loop of addSoundFlags: the flags after it, and whether one was added
AddSoundFlagsLoop(flags, staffTextList) ==
    LET Step[i \in 0 .. Len(staffTextList)] ==
            IF i = 0 THEN [flags |-> flags, added |-> FALSE]
            ELSE LET r == doAddSoundFlag(Step[i - 1].flags, staffTextList[i])
                 IN  [flags |-> r.flags, added |-> Step[i - 1].added \/ r.added]
    IN  Step[Len(staffTextList)]

\* the removal of removeSoundFlags for one collected staff text
RemoveSoundFlag(flags, staffText) ==
    IF ~HasSoundFlag(flags, staffText)
    THEN flags
    ELSE [a \in DOMAIN flags |->
            IF a = staffText
            THEN flags[a] - 1
            ELSE IF /\ a \in LinksOf[staffText]
                    /\ Kind[a] = "StaffText"
                    /\ HasSoundFlag(flags, a)
            THEN flags[a] - 1
            ELSE flags[a]]

\* the same as removeSoundFlags, without the early return
RemoveSoundFlagsAlways(flags, trackIdSet) ==
    LET staffTextList == collectStaffText(flags, trackIdSet, TRUE).result
        Step[i \in 0 .. Len(staffTextList)] ==
            IF i = 0 THEN flags ELSE RemoveSoundFlag(Step[i - 1], staffTextList[i])
    IN  [flags |-> Step[Len(staffTextList)], done |-> TRUE]

\* removeSoundFlags up to score()->update(): the flags after it, and whether
\* it went on to the reload and the notification
removeSoundFlags(flags, trackIdSet) ==
    LET staffTextList == collectStaffText(flags, trackIdSet, TRUE).result
        Step[i \in 0 .. Len(staffTextList)] ==
            IF i = 0 THEN flags ELSE RemoveSoundFlag(Step[i - 1], staffTextList[i])
    IN  IF staffTextList = << >>
        THEN [flags |-> flags, done |-> FALSE]
        ELSE [flags |-> Step[Len(staffTextList)], done |-> TRUE]

\* the record kept of the last query or routing call
NoRes == [op |-> "none", list |-> << >>, events |-> << >>, staffIdx |-> 0,
          tracks |-> {}, with |-> FALSE,
          result |-> << >>, scanned |-> 0, notified |-> 0, reloads |-> 0,
          ret |-> [ok |-> TRUE, val |-> 0], sends |-> << >>, log |-> << >>,
          beat |-> DefaultMeasureBeat,
          nullScoreUse |-> FALSE, outcome |-> "returned"]

\* sound flags of a score whose linked staff texts agree
LockstepFlags(flags) ==
    \A a \in StaffTexts, b \in StaffTexts :
        b \in LinksOf[a] => flags[a] = flags[b]

\* a score without sound flags, at the tempo as written
ExtInit ==
    /\ soundFlags = [a \in StaffTexts |-> 0]
    /\ tempoMul = TempoUnit
    /\ res = NoRes

(* ------------------------ calls without a score ----------------------- *)
\* Whether the call reaches score()->... although score() is null.
addLoopBoundaryUsesScore(boundaryType, tick) ==
    \/ tick = FirstScoreTick
    \/ tick = LastScoreTick
    \/ boundaryType = "LoopIn"
    \/ boundaryType = "LoopOut"

\* addLoopIn reads score()->pos() or score()->loopOutTick() on every path
addLoopInUsesScore(_tick) == TRUE

\* addLoopOut reads score()->pos() or score()->loopInTick() on every path
addLoopOutUsesScore(_tick) == TRUE

\* triggerControllers asks score()->staff(staffIdx) once the list is not empty
triggerControllersUsesScore(list) == list # << >>

\* updateLoopBoundaries reads score()->loopInTick() first thing
updateLoopBoundariesUsesScore == TRUE

\* addSoundFlags calls score()->update() once a flag was added
addSoundFlagsUsesScore(flags, staffTextList) ==
    AddSoundFlagsLoop(flags, staffTextList).added

(* ------------------------------ actions ------------------------------- *)
\* the ticks the callers pass: the selection sentinel, a negative tick, 0,
\* the ticks of the score and one beyond its end
TickArgs == SelectedNoteTick .. (MaxLastTick + 1)

\* the cursor positions and input-state durations that matter to a call:
\* only the selection sentinel reads them
PosArgs(_tick) == IF _tick = SelectedNoteTick THEN 0 .. lastTick ELSE {0}
DurArgs(_tick) == IF _tick = SelectedNoteTick THEN 1 .. MaxInputTicks ELSE {1}

LoopHist(op, tick, m) == [NoOp EXCEPT !.op = op, !.tick = tick, !.notes = m.notes]

TimeHist(op, t) ==
    [NoOp EXCEPT !.op = op, !.sent = t.sent, !.recomputed = t.recomputed,
                 !.reloads = t.reloads]

ApplyLoop(m) ==
    /\ scoreLoopIn' = m.in
    /\ scoreLoopOut' = m.out
    /\ m_loopBoundaries' = m.lb

\* NotationPlayback::init()
NotationPlaybackInit ==
    /\ ~inited
    /\ IF ~loaded
       THEN /\ last' = TimeHist("init", TimeMachine)
            /\ UNCHANGED << inited, m_totalPlayTime, pm >>
       ELSE LET model == [f \in FlagNames |-> config[f]]
                t == UpdateTotalPlayTime(TimeMachine, model)
            IN  /\ pm' = model
                /\ m_totalPlayTime' = t.total
                /\ inited' = TRUE
                /\ last' = TimeHist("init", t)
    /\ UNCHANGED << loaded, scoreVars, scoreLoopIn, scoreLoopOut,
                    m_loopBoundaries, config, pending, pristine, enableVars >>
    /\ UNCHANGED extVars

\* NotationPlayback::addLoopIn(_tick)
CallAddLoopIn ==
    /\ loaded
    /\ \E _tick \in TickArgs :
       \E p \in PosArgs(_tick) :
         LET pos == FromTicks(p)
             m == addLoopIn(Machine, _tick, pos)
         IN  /\ ApplyLoop(m)
             /\ last' = LoopHist("addLoopIn", Ticks(LoopInTickOf(_tick, pos)), m)
    /\ pristine' = FALSE
    /\ UNCHANGED << loaded, inited, scoreVars, timeVars, enableVars >>
    /\ UNCHANGED extVars

\* NotationPlayback::addLoopOut(_tick)
CallAddLoopOut ==
    /\ loaded
    /\ \E _tick \in TickArgs :
       \E p \in PosArgs(_tick), d \in DurArgs(_tick) :
         LET pos == FromTicks(p)
             inputTicks == FromTicks(d)
             m == addLoopOut(Machine, _tick, pos, inputTicks)
         IN  /\ ApplyLoop(m)
             /\ last' = LoopHist("addLoopOut",
                                 Ticks(LoopOutTickOf(_tick, pos, inputTicks)), m)
    /\ pristine' = FALSE
    /\ UNCHANGED << loaded, inited, scoreVars, timeVars, enableVars >>
    /\ UNCHANGED extVars

BoundaryTypes == {"LoopIn", "LoopOut", "Unknown"}

\* NotationPlayback::addLoopBoundary(boundaryType, tick)
CallAddLoopBoundary ==
    /\ loaded
    /\ \E boundaryType \in BoundaryTypes, tick \in FirstScoreTick .. (MaxLastTick + 1) :
       \E p \in IF boundaryType = "Unknown" THEN {0} ELSE PosArgs(tick),
          d \in IF boundaryType = "LoopOut" THEN DurArgs(tick) ELSE {1} :
         LET pos == FromTicks(p)
             inputTicks == FromTicks(d)
             m == addLoopBoundary(Machine, boundaryType, tick, pos, inputTicks)
         IN  /\ ApplyLoop(m)
             /\ last' = LoopHist("addLoopBoundary" \o boundaryType, tick, m)
    /\ pristine' = FALSE
    /\ UNCHANGED << loaded, inited, scoreVars, timeVars, enableVars >>
    /\ UNCHANGED extVars

\* NotationPlayback::setLoopBoundariesEnabled(enabled)
CallSetLoopBoundariesEnabled ==
    /\ enableFlips < MaxEnableFlips
    /\ enableNotifies < MaxEnableFlips
    /\ \E enabled \in BOOLEAN :
         LET m == setLoopBoundariesEnabled(Machine, enabled)
         IN  /\ ApplyLoop(m)
             /\ last' = [LoopHist("setLoopBoundariesEnabled", 0, m)
                           EXCEPT !.arg = enabled]
             /\ enableFlips' = enableFlips
                               + (IF enabled # m_loopBoundaries.enabled THEN 1 ELSE 0)
             /\ enableNotifies' = enableNotifies + Len(m.notes)
    /\ pristine' = FALSE
    /\ UNCHANGED << loaded, inited, scoreVars, timeVars >>
    /\ UNCHANGED extVars

\* m_notationChanged fires: the handler the constructor subscribed
NotationChanged ==
    /\ loaded
    /\ LET m == UpdateLoopBoundaries(Machine)
       IN  /\ ApplyLoop(m)
           /\ last' = LoopHist("notationChanged", 0, m)
    /\ pristine' = FALSE
    /\ UNCHANGED << loaded, inited, scoreVars, timeVars, enableVars >>
    /\ UNCHANGED extVars

(* ----------------------- the loop specification ----------------------- *)
\* The state after construction, with a score that has at least one measure.
\* The score's markers are any pair with 0 <= loopIn <= loopOut <= last tick
\* (an untouched score has (0, 0); a score whose loop was set before has any
\* such pair).  The calls may come before or after init().
AllFlags(v) == [f \in FlagNames |-> v]

Init ==
    /\ loaded = TRUE
    /\ inited = FALSE
    /\ lastTick \in 1 .. MaxLastTick
    /\ repeatExtra = 0
    /\ secsPerTick = 1
    /\ \E i \in 0 .. MaxLastTick, o \in 0 .. MaxLastTick :
         /\ i <= o
         /\ o <= lastTick
         /\ scoreLoopIn = FromTicks(i)
         /\ scoreLoopOut = FromTicks(o)
    /\ m_loopBoundaries = DefaultLoopBoundaries
    /\ m_totalPlayTime = 0
    /\ config = AllFlags(TRUE)
    /\ pm = AllFlags(TRUE)
    /\ pending = {}
    /\ pristine = TRUE
    /\ enableFlips = 0
    /\ enableNotifies = 0
    /\ last = NoOp
    /\ ExtInit

Next ==
    \/ NotationPlaybackInit
    \/ CallAddLoopIn
    \/ CallAddLoopOut
    \/ CallAddLoopBoundary
    \/ CallSetLoopBoundariesEnabled
    \/ NotationChanged

Spec == Init /\ [][Next]_vars


(* -------------------- the dispatch specification ---------------------- *)
\* addLoopBoundary on every region the score can have, before and after
\* init(), with the loop enabled or not.
NextBoundary ==
    \/ NotationPlaybackInit
    \/ CallAddLoopBoundary
    \/ CallSetLoopBoundariesEnabled
    \/ NotationChanged

SpecBoundary == Init /\ [][NextBoundary]_vars

(* --------------------- the play-time specification -------------------- *)
\* The total play time and what makes it change: init(), the play-repeats
\* flag of the configuration, the content of the score, reload(), and the
\* score going away.  The loop markers stay as they are here.
loopVars == << scoreLoopIn, scoreLoopOut, m_loopBoundaries, pristine, enableVars >>

\* the configuration's play-repeats flag is set and isPlayRepeatsChanged()
\* notifies; the notification reaches the handler only if init() subscribed it
ConfigPlayRepeatsChanged ==
    /\ \E v \in BOOLEAN : config' = [config EXCEPT !.playRepeats = v]
    /\ pending' = IF inited THEN pending \cup {"playRepeats"} ELSE pending
    /\ last' = [NoOp EXCEPT !.op = "setPlayRepeats"]
    /\ UNCHANGED << loaded, inited, scoreVars, loopVars, m_totalPlayTime, pm >>
    /\ UNCHANGED extVars

\* the isPlayRepeatsChanged() notification is handled
HandlePlayRepeatsChanged ==
    /\ "playRepeats" \in pending
    /\ LET r == OnPlayRepeatsChanged(TimeMachine, pm, config)
       IN  /\ pm' = r.model
           /\ m_totalPlayTime' = r.t.total
           /\ last' = TimeHist("isPlayRepeatsChanged", r.t)
    /\ pending' = pending \ {"playRepeats"}
    /\ UNCHANGED << loaded, inited, scoreVars, loopVars, config >>
    /\ UNCHANGED extVars

\* the content of the score changes (measures, repeats, tempo); the playback
\* model follows the change and notifies dataChanged()
ScoreContentChanged ==
    /\ loaded
    /\ \E lt \in 1 .. MaxLastTick, re \in 0 .. MaxRepeatExtra,
          spt \in 1 .. MaxSecsPerTick :
         /\ << lt, re, spt >> # << lastTick, repeatExtra, secsPerTick >>
         /\ lastTick' = lt
         /\ repeatExtra' = re
         /\ secsPerTick' = spt
         /\ LET score == [loaded |-> loaded, lastTick |-> lt,
                          repeatExtra |-> re, secsPerTick |-> spt]
                t == DataChanged([TimeMachine EXCEPT !.score = score], pm)
            IN  /\ m_totalPlayTime' = t.total
                /\ last' = TimeHist("scoreContentChanged", t)
    /\ UNCHANGED << loaded, inited, loopVars, config, pm, pending >>
    /\ UNCHANGED extVars

\* NotationPlayback::reload()
CallReload ==
    /\ LET t == PlaybackModelReload(TimeMachine, pm)
       IN  /\ m_totalPlayTime' = t.total
           /\ last' = TimeHist("reload", t)
    /\ UNCHANGED << loaded, inited, scoreVars, loopVars, config, pm, pending >>
    /\ UNCHANGED extVars

\* the score provider stops having a score: score() returns null from now on
ScoreClosed ==
    /\ loaded
    /\ inited
    /\ loaded' = FALSE
    /\ last' = [NoOp EXCEPT !.op = "scoreClosed"]
    /\ UNCHANGED << inited, scoreVars, loopVars, timeVars >>
    /\ UNCHANGED extVars

InitTime ==
    /\ loaded \in BOOLEAN
    /\ inited = FALSE
    /\ lastTick \in 1 .. MaxLastTick
    /\ repeatExtra \in 0 .. MaxRepeatExtra
    /\ secsPerTick \in 1 .. MaxSecsPerTick
    /\ scoreLoopIn = FromTicks(0)
    /\ scoreLoopOut = FromTicks(0)
    /\ m_loopBoundaries = DefaultLoopBoundaries
    /\ m_totalPlayTime = 0
    /\ \E v \in BOOLEAN : config = [AllFlags(TRUE) EXCEPT !.playRepeats = v]
    /\ \E v \in BOOLEAN : pm = [AllFlags(TRUE) EXCEPT !.playRepeats = v]
    /\ pending = {}
    /\ pristine = TRUE
    /\ enableFlips = 0
    /\ enableNotifies = 0
    /\ last = NoOp
    /\ ExtInit

NextTime ==
    \/ NotationPlaybackInit
    \/ ConfigPlayRepeatsChanged
    \/ HandlePlayRepeatsChanged
    \/ ScoreContentChanged
    \/ CallReload
    \/ ScoreClosed

SpecTime == InitTime /\ [][NextTime]_vars

(* -------------------- the sound-flag specification -------------------- *)
MaxListLen == 2

\* the lists of staff texts a caller passes: null pointers among them
StaffTextLists ==
    UNION {[1 .. n -> StaffTexts \cup {NullText}] : n \in 0 .. MaxListLen}

\* what the listeners of the playback model and of m_notationChanged do
\* after a change of the sound flags
AfterSoundFlagChange(op, reloaded, notified) ==
    LET t == IF reloaded THEN PlaybackModelReload(TimeMachine, pm) ELSE TimeMachine
        m == IF notified THEN UpdateLoopBoundaries(Machine) ELSE Machine
    IN  /\ m_totalPlayTime' = t.total
        /\ ApplyLoop(m)
        /\ pristine' = (pristine /\ ~notified)
        /\ last' = [NoOp EXCEPT !.op = op, !.notes = m.notes, !.sent = t.sent,
                                !.recomputed = t.recomputed,
                                !.reloads = t.reloads]

\* NotationPlayback::addSoundFlags(staffTextList)
CallAddSoundFlags ==
    /\ loaded
    /\ \E staffTextList \in StaffTextLists :
         LET r == AddSoundFlagsLoop(soundFlags, staffTextList)
         IN  /\ soundFlags' = r.flags
             /\ res' = [NoRes EXCEPT !.op = "addSoundFlags",
                                     !.list = staffTextList,
                                     !.notified = IF r.added THEN 1 ELSE 0]
             /\ AfterSoundFlagChange("addSoundFlags", FALSE, r.added)
    /\ UNCHANGED << loaded, inited, scoreVars, config, pm, pending,
                    enableVars, tempoMul >>

\* NotationPlayback::removeSoundFlags(trackIdSet)
CallRemoveSoundFlags ==
    /\ loaded
    /\ \E trackIdSet \in SUBSET TrackIds :
         LET r == removeSoundFlags(soundFlags, trackIdSet)
         IN  /\ soundFlags' = r.flags
             /\ res' = [NoRes EXCEPT !.op = "removeSoundFlags",
                                     !.tracks = trackIdSet,
                                     !.reloads = IF r.done THEN 1 ELSE 0,
                                     !.notified = IF r.done THEN 1 ELSE 0]
             /\ AfterSoundFlagChange("removeSoundFlags", r.done, r.done)
    /\ UNCHANGED << loaded, inited, scoreVars, config, pm, pending,
                    enableVars, tempoMul >>

\* NotationPlayback::collectStaffText(trackIdSet, withSoundFlags)
CallCollectStaffText ==
    /\ loaded
    /\ \E trackIdSet \in SUBSET TrackIds, withSoundFlags \in BOOLEAN :
         LET r == collectStaffText(soundFlags, trackIdSet, withSoundFlags)
         IN  res' = [NoRes EXCEPT !.op = "collectStaffText",
                                  !.tracks = trackIdSet,
                                  !.with = withSoundFlags,
                                  !.result = r.result,
                                  !.scanned = r.scanned]
    /\ last' = [NoOp EXCEPT !.op = "collectStaffText"]
    /\ UNCHANGED << loaded, inited, scoreVars, loopVars, timeVars,
                    soundFlags, tempoMul >>

\* A loaded score whose linked staff texts agree on their sound flag, some
\* with a flag, some without.
InitFlags ==
    /\ loaded = TRUE
    /\ inited = FALSE
    /\ lastTick = MaxLastTick
    /\ repeatExtra = 0
    /\ secsPerTick = 1
    /\ scoreLoopIn = FromTicks(0)
    /\ scoreLoopOut = FromTicks(0)
    /\ m_loopBoundaries = DefaultLoopBoundaries
    /\ m_totalPlayTime = 0
    /\ config = AllFlags(TRUE)
    /\ pm = AllFlags(TRUE)
    /\ pending = {}
    /\ pristine = TRUE
    /\ enableFlips = 0
    /\ enableNotifies = 0
    /\ last = NoOp
    /\ soundFlags \in [StaffTexts -> {0, 1}]
    /\ LockstepFlags(soundFlags)
    /\ tempoMul = TempoUnit
    /\ res = NoRes

NextFlags ==
    \/ NotationPlaybackInit
    \/ CallAddSoundFlags
    \/ CallRemoveSoundFlags
    \/ CallCollectStaffText

SpecFlags == InitFlags /\ [][NextFlags]_vars

(* ------------------ the configuration specification ------------------- *)
\* the configuration sets a flag, to any value, and notifies; the
\* notification reaches the playback once init() has subscribed
ConfigFlagSet(op, flag) ==
    /\ \E v \in BOOLEAN : config' = [config EXCEPT ![flag] = v]
    /\ pending' = IF inited THEN pending \cup {flag} ELSE pending
    /\ last' = [NoOp EXCEPT !.op = op]
    /\ UNCHANGED << loaded, inited, scoreVars, loopVars, m_totalPlayTime, pm >>
    /\ UNCHANGED extVars

\* a pending notification of a flag is handled
ConfigFlagHandled(op, flag, r) ==
    /\ flag \in pending
    /\ pm' = r.model
    /\ m_totalPlayTime' = r.t.total
    /\ last' = TimeHist(op, r.t)
    /\ pending' = pending \ {flag}
    /\ UNCHANGED << loaded, inited, scoreVars, loopVars, config >>
    /\ UNCHANGED extVars

ConfigPlayChordSymbolsChanged == ConfigFlagSet("setPlayChordSymbols", "playChordSymbols")

HandlePlayChordSymbolsChanged ==
    ConfigFlagHandled("isPlayChordSymbolsChanged", "playChordSymbols",
                      OnPlayChordSymbolsChanged(TimeMachine, pm, config))

ConfigPreviewDynamicsChanged == ConfigFlagSet("setPreviewDynamics", "previewDynamics")

HandlePreviewDynamicsChanged ==
    ConfigFlagHandled("playPreviewNotesWithScoreDynamicsChanged", "previewDynamics",
                      OnPreviewDynamicsChanged(TimeMachine, pm, config))

ConfigMetronomeEnabledChanged == ConfigFlagSet("setMetronomeEnabled", "metronome")

HandleMetronomeEnabledChanged ==
    ConfigFlagHandled("isMetronomeEnabledChanged", "metronome",
                      OnMetronomeEnabledChanged(TimeMachine, pm, config))

\* A loaded score with repeats; any configuration, and any flags in the
\* playback model before init() sets them.
InitConfig ==
    /\ loaded = TRUE
    /\ inited = FALSE
    /\ lastTick = MaxLastTick
    /\ repeatExtra = MaxRepeatExtra
    /\ secsPerTick = 1
    /\ scoreLoopIn = FromTicks(0)
    /\ scoreLoopOut = FromTicks(0)
    /\ m_loopBoundaries = DefaultLoopBoundaries
    /\ m_totalPlayTime = 0
    /\ config \in [FlagNames -> BOOLEAN]
    /\ pm \in [FlagNames -> BOOLEAN]
    /\ pending = {}
    /\ pristine = TRUE
    /\ enableFlips = 0
    /\ enableNotifies = 0
    /\ last = NoOp
    /\ ExtInit

NextConfig ==
    \/ NotationPlaybackInit
    \/ ConfigPlayRepeatsChanged
    \/ HandlePlayRepeatsChanged
    \/ ConfigPlayChordSymbolsChanged
    \/ HandlePlayChordSymbolsChanged
    \/ ConfigPreviewDynamicsChanged
    \/ HandlePreviewDynamicsChanged
    \/ ConfigMetronomeEnabledChanged
    \/ HandleMetronomeEnabledChanged

SpecConfig == InitConfig /\ [][NextConfig]_vars

(* ------------------ position, routing and tempo actions ---------------- *)
MaxTempoMul == 2

\* the multipliers a caller passes: negative, zero and accepted ones
TempoArgs == -1 .. MaxTempoMul

ControllerEvents == {"cc1", "cc2"}
ControllerLists ==
    UNION {[1 .. n -> ControllerEvents] : n \in 0 .. MaxListLen}

\* NotationPlayback::playPositionTickByRawTick(tick)
CallPlayPositionTickByRawTick ==
    /\ \E tick \in 0 .. lastTick :
         /\ res' = [NoRes EXCEPT !.op = "playPositionTickByRawTick",
                                 !.ret = playPositionTickByRawTick(ScoreNow, pm, tick)]
         /\ last' = [NoOp EXCEPT !.op = "playPositionTickByRawTick", !.tick = tick]
    /\ UNCHANGED << loaded, inited, scoreVars, loopVars, timeVars,
                    soundFlags, tempoMul >>

\* NotationPlayback::playPositionTickByElement(element)
CallPlayPositionTickByElement ==
    /\ \E element \in {NullElement} \cup {ElementAt(t) : t \in 0 .. lastTick} :
         /\ res' = [NoRes EXCEPT !.op = "playPositionTickByElement",
                                 !.ret = playPositionTickByElement(ScoreNow, pm, element)]
         /\ last' = [NoOp EXCEPT !.op = "playPositionTickByElement",
                                 !.tick = IF element.null THEN 0 ELSE Ticks(element.tick),
                                 !.arg = element.null]
    /\ UNCHANGED << loaded, inited, scoreVars, loopVars, timeVars,
                    soundFlags, tempoMul >>

\* NotationPlayback::triggerControllers(list, staffIdx, tick)
CallTriggerControllers ==
    /\ \E list \in ControllerLists, staffIdx \in 0 .. NumStaves,
          tick \in 0 .. MaxLastTick :
         /\ loaded \/ list = << >>
         /\ res' = [NoRes EXCEPT !.op = "triggerControllers",
                                 !.events = list,
                                 !.staffIdx = staffIdx,
                                 !.sends = triggerControllers(list, staffIdx, tick)]
         /\ last' = [NoOp EXCEPT !.op = "triggerControllers", !.tick = tick]
    /\ UNCHANGED << loaded, inited, scoreVars, loopVars, timeVars,
                    soundFlags, tempoMul >>

\* NotationPlayback::setTempoMultiplier(multiplier)
CallSetTempoMultiplier ==
    /\ \E multiplier \in TempoArgs :
         LET r == setTempoMultiplier(TimeMachine, pm, tempoMul, multiplier)
         IN  /\ tempoMul' = r.mul
             /\ secsPerTick' = r.t.score.secsPerTick
             /\ m_totalPlayTime' = r.t.total
             /\ res' = [NoRes EXCEPT !.op = "setTempoMultiplier", !.log = r.log]
             /\ last' = [TimeHist("setTempoMultiplier", r.t) EXCEPT !.tick = multiplier]
    /\ UNCHANGED << loaded, inited, lastTick, repeatExtra, loopVars, config, pm,
                    pending, soundFlags >>

\* A score or none, any repeats, any flag in the configuration and in the
\* playback model.
InitPlay == InitTime

NextPlay ==
    \/ NotationPlaybackInit
    \/ ConfigPlayRepeatsChanged
    \/ HandlePlayRepeatsChanged
    \/ ScoreClosed
    \/ CallPlayPositionTickByRawTick
    \/ CallPlayPositionTickByElement

SpecPlay == InitPlay /\ [][NextPlay]_vars

(* ------------------ the routing and tempo specification ---------------- *)
\* A score or none, at any tempo as written, played with its repeats.
InitRoute ==
    /\ loaded \in BOOLEAN
    /\ inited = FALSE
    /\ lastTick = MaxLastTick
    /\ repeatExtra \in 0 .. MaxRepeatExtra
    /\ secsPerTick \in 1 .. MaxSecsPerTick
    /\ scoreLoopIn = FromTicks(0)
    /\ scoreLoopOut = FromTicks(0)
    /\ m_loopBoundaries = DefaultLoopBoundaries
    /\ m_totalPlayTime = 0
    /\ config = AllFlags(TRUE)
    /\ pm = AllFlags(TRUE)
    /\ pending = {}
    /\ pristine = TRUE
    /\ enableFlips = 0
    /\ enableNotifies = 0
    /\ last = NoOp
    /\ ExtInit

NextRoute ==
    \/ NotationPlaybackInit
    \/ ScoreClosed
    \/ CallTriggerControllers
    \/ CallSetTempoMultiplier

SpecRoute == InitRoute /\ [][NextRoute]_vars

\* the program's state apart from the records kept of the last call
programVars == << loaded, inited, scoreVars, loopVars, timeVars, soundFlags,
                  tempoMul >>

(* ---------------------- the no-score specification -------------------- *)
\* The calls a client makes while score() may be null.  A call that reaches
\* score()->... on the null pointer has undefined behaviour: the process is
\* gone, or the call goes on; either way nothing is modelled after it.
Running == ~res.nullScoreUse

SecArgs == 0 .. MaxLastTick

\* a query: its value, nothing else changes
Query(op, tick, ret) ==
    /\ Running
    /\ res' = [NoRes EXCEPT !.op = op, !.ret = ret]
    /\ last' = [NoOp EXCEPT !.op = op, !.tick = tick]
    /\ UNCHANGED programVars

CallPlayedTickToSec ==
    \E tick \in 0 .. MaxLastTick :
        Query("playedTickToSec", tick, RetOk(playedTickToSec(ScoreNow, tick)))

CallSecToPlayedTick ==
    \E sec \in SecArgs :
        Query("secToPlayedTick", sec, RetOk(secToPlayedTick(ScoreNow, sec)))

CallSecToTick ==
    \E sec \in SecArgs :
        Query("secToTick", sec, RetOk(secToTick(ScoreNow, pm, sec)))

CallBeat ==
    /\ Running
    /\ \E tick \in 0 .. MaxLastTick :
         /\ res' = [NoRes EXCEPT !.op = "beat", !.beat = beat(ScoreNow, tick)]
         /\ last' = [NoOp EXCEPT !.op = "beat", !.tick = tick]
    /\ UNCHANGED programVars

CallBeatToRawTick ==
    \E measureIndex \in 0 .. (MaxLastTick - 1) :
        Query("beatToRawTick", measureIndex,
              RetOk(beatToRawTick(ScoreNow, measureIndex, 0)))

CallMultipliedTempo ==
    \E tick \in 0 .. MaxLastTick :
        Query("multipliedTempo", tick, RetOk(multipliedTempo(ScoreNow, tempoMul, tick)))

CallTempoMultiplier ==
    Query("tempoMultiplier", 0, RetOk(tempoMultiplier(ScoreNow, tempoMul)))

\* a call made without a score: it returns, or it uses the missing score
WithoutScore(op, tick, usesScore) ==
    /\ Running
    /\ ~loaded
    /\ last' = [NoOp EXCEPT !.op = op, !.tick = tick]
    /\ IF usesScore
       THEN \E outcome \in {"crashed", "went on"} :
              res' = [NoRes EXCEPT !.op = op, !.nullScoreUse = TRUE,
                                   !.outcome = outcome]
       ELSE res' = [NoRes EXCEPT !.op = op]

\* addLoopBoundary(boundaryType, tick) while score() is null
CallAddLoopBoundaryWithoutScore ==
    /\ \E boundaryType \in BoundaryTypes, tick \in FirstScoreTick .. (MaxLastTick + 1) :
         WithoutScore("addLoopBoundary" \o boundaryType, tick,
                      addLoopBoundaryUsesScore(boundaryType, tick))
    /\ UNCHANGED programVars

\* addLoopIn(_tick) while score() is null
CallAddLoopInWithoutScore ==
    /\ \E _tick \in TickArgs :
         WithoutScore("addLoopIn", _tick, addLoopInUsesScore(_tick))
    /\ UNCHANGED programVars

\* addLoopOut(_tick) while score() is null
CallAddLoopOutWithoutScore ==
    /\ \E _tick \in TickArgs :
         WithoutScore("addLoopOut", _tick, addLoopOutUsesScore(_tick))
    /\ UNCHANGED programVars

\* triggerControllers(list, staffIdx, tick) while score() is null
CallTriggerControllersWithoutScore ==
    /\ \E list \in ControllerLists, tick \in 0 .. MaxLastTick :
         WithoutScore("triggerControllers", tick, triggerControllersUsesScore(list))
    /\ UNCHANGED programVars

\* m_notationChanged fires while score() is null
NotationChangedWithoutScore ==
    /\ WithoutScore("notationChanged", 0, updateLoopBoundariesUsesScore)
    /\ UNCHANGED programVars

\* addSoundFlags(staffTextList) while score() is null: the staff texts get
\* their flags before score()->update() is reached
CallAddSoundFlagsWithoutScore ==
    /\ \E staffTextList \in StaffTextLists :
         /\ WithoutScore("addSoundFlags", 0,
                         addSoundFlagsUsesScore(soundFlags, staffTextList))
         /\ soundFlags' = AddSoundFlagsLoop(soundFlags, staffTextList).flags
    /\ UNCHANGED << loaded, inited, scoreVars, loopVars, timeVars, tempoMul >>

RunningInit == Running /\ NotationPlaybackInit
RunningScoreClosed == Running /\ ScoreClosed
RunningPlayPositionTickByRawTick == Running /\ CallPlayPositionTickByRawTick
RunningPlayPositionTickByElement == Running /\ CallPlayPositionTickByElement
RunningSetTempoMultiplier == Running /\ CallSetTempoMultiplier

InitNoScore == InitRoute

NextNoScore ==
    \/ RunningInit
    \/ RunningScoreClosed
    \/ RunningPlayPositionTickByRawTick
    \/ RunningPlayPositionTickByElement
    \/ RunningSetTempoMultiplier
    \/ CallPlayedTickToSec
    \/ CallSecToPlayedTick
    \/ CallSecToTick
    \/ CallBeat
    \/ CallBeatToRawTick
    \/ CallMultipliedTempo
    \/ CallTempoMultiplier
    \/ CallAddLoopBoundaryWithoutScore
    \/ CallAddLoopInWithoutScore
    \/ CallAddLoopOutWithoutScore
    \/ CallTriggerControllersWithoutScore
    \/ NotationChangedWithoutScore
    \/ CallAddSoundFlagsWithoutScore

SpecNoScore == InitNoScore /\ [][NextNoScore]_vars

(* ------------------------- loop boundary claims ----------------------- *)
Min(a, b) == IF a <= b THEN a ELSE b

LoopOps == {"addLoopIn", "addLoopOut", "addLoopBoundaryLoopIn",
            "addLoopBoundaryLoopOut", "addLoopBoundaryUnknown",
            "setLoopBoundariesEnabled", "notationChanged"}

\* the controller's tick pair is the score's stored pair of markers
TuplePairIsMarkers ==
    /\ m_loopBoundaries.loopInTick = Ticks(scoreLoopIn)
    /\ m_loopBoundaries.loopOutTick = Ticks(scoreLoopOut)

\* C1: after any sequence of addLoopIn and addLoopOut calls on a loaded score
\* whose markers started with loopIn <= loopOut <= lastScoreTick, the region
\* reported by loopBoundaries() and the score's markers satisfy
\* loopInTick <= loopOutTick <= lastScoreTick.
C1_LoopInvariant ==
    (loaded /\ inited /\ last.op \in {"addLoopIn", "addLoopOut"}) =>
        /\ m_loopBoundaries.loopInTick <= m_loopBoundaries.loopOutTick
        /\ m_loopBoundaries.loopOutTick <= lastTick
        /\ Ticks(scoreLoopIn) <= Ticks(scoreLoopOut)
        /\ Ticks(scoreLoopOut) <= lastTick

\* C2: addLoopIn with a (resolved) tick >= the current loopOut leaves
\* loopOut == lastScoreTick and loopIn == tick; with tick < the current loopOut
\* it leaves loopIn == tick and loopOut unchanged.  Stated of the score's
\* markers and, once init() has subscribed the channel, of the controller's
\* tuple.
C2_AddLoopIn ==
    [][ last'.op = "addLoopIn" =>
          /\ Ticks(scoreLoopIn') = last'.tick
          /\ IF last'.tick >= Ticks(scoreLoopOut)
             THEN Ticks(scoreLoopOut') = lastTick
             ELSE scoreLoopOut' = scoreLoopOut
          /\ inited => /\ m_loopBoundaries'.loopInTick = last'.tick
                       /\ m_loopBoundaries'.loopOutTick = Ticks(scoreLoopOut')
      ]_vars

\* an addLoopIn that reset loopOut to the end of the score and then set loopIn
C2_Witness ==
    /\ inited
    /\ last.op = "addLoopIn"
    /\ Len(last.notes) = 2
    /\ last.notes[1].loopOutTick = lastTick
    /\ m_loopBoundaries.loopInTick = last.tick
    /\ m_loopBoundaries.loopOutTick = lastTick

\* C3: addLoopOut with a (resolved) tick <= the current loopIn leaves
\* loopIn == 0 and loopOut == tick, the tick not being clamped.
C3_AddLoopOutReset ==
    [][ (last'.op = "addLoopOut" /\ last'.tick <= Ticks(scoreLoopIn)) =>
          /\ Ticks(scoreLoopIn') = 0
          /\ Ticks(scoreLoopOut') = last'.tick
          /\ inited => /\ m_loopBoundaries'.loopInTick = 0
                       /\ m_loopBoundaries'.loopOutTick = last'.tick
      ]_vars

\* an addLoopOut on the reset branch whose tick lies beyond the end of the
\* score and was stored as it is
C3_Witness ==
    /\ inited
    /\ last.op = "addLoopOut"
    /\ last.tick > lastTick
    /\ m_loopBoundaries.loopOutTick = last.tick
    /\ m_loopBoundaries.loopInTick = 0
    /\ Len(last.notes) = 2

\* C4: addLoopOut with a (resolved) tick > the current loopIn sets
\* loopOut == min(tick, lastScoreTick) and leaves loopIn unchanged.
C4_AddLoopOutClamp ==
    [][ (last'.op = "addLoopOut" /\ last'.tick > Ticks(scoreLoopIn)) =>
          /\ Ticks(scoreLoopOut') = Min(last'.tick, lastTick)
          /\ scoreLoopIn' = scoreLoopIn
          /\ inited => /\ m_loopBoundaries'.loopOutTick = Min(last'.tick, lastTick)
                       /\ m_loopBoundaries'.loopInTick = Ticks(scoreLoopIn)
      ]_vars

\* an addLoopOut whose tick was beyond the end of the score and was clamped
C4_Witness ==
    /\ inited
    /\ last.op = "addLoopOut"
    /\ last.tick > lastTick
    /\ m_loopBoundaries.loopOutTick = lastTick
    /\ Ticks(scoreLoopOut) = lastTick

\* C5: setLoopBoundariesEnabled(flag) notifies exactly once when flag differs
\* from the stored value and not at all when it equals it, the ticks staying
\* as they are; over a sequence of calls the notifications it raised are as
\* many as the calls that flipped the value.
C5_SetEnabled ==
    /\ [](enableNotifies = enableFlips)
    /\ [][ last'.op = "setLoopBoundariesEnabled" =>
             /\ Len(last'.notes)
                  = (IF last'.arg # m_loopBoundaries.enabled THEN 1 ELSE 0)
             /\ m_loopBoundaries'.enabled = last'.arg
             /\ m_loopBoundaries'.loopInTick = m_loopBoundaries.loopInTick
             /\ m_loopBoundaries'.loopOutTick = m_loopBoundaries.loopOutTick
         ]_vars

\* a redundant call, after a call that flipped the value
C5_Witness ==
    /\ enableFlips = 1
    /\ enableNotifies = 1
    /\ last.op = "setLoopBoundariesEnabled"
    /\ last.notes = << >>

\* C6: a loop-boundary operation raises a loopBoundariesChanged notification
\* exactly when it leaves a {loopInTick, loopOutTick, enabled} tuple that
\* differs from the one before it; an operation ending in the same tuple
\* raises none.
C6_NotifyOnDelta ==
    [][ last'.op \in LoopOps =>
          ((Len(last'.notes) > 0) <=> (m_loopBoundaries' # m_loopBoundaries))
      ]_vars

\* C7: when the score-changed notification fires, and (init() having
\* subscribed the score's loop-boundary-tick-changed channel) after every
\* addLoopIn / addLoopOut, the controller's tick pair equals the score's
\* markers and the enabled flag is the one from before.
C7_Rederive ==
    [][ (\/ last'.op = "notationChanged"
         \/ (inited /\ last'.op \in {"addLoopIn", "addLoopOut"})) =>
          /\ m_loopBoundaries'.loopInTick = Ticks(scoreLoopIn')
          /\ m_loopBoundaries'.loopOutTick = Ticks(scoreLoopOut')
          /\ m_loopBoundaries'.enabled = m_loopBoundaries.enabled
      ]_vars

\* a score-changed notification that brought the ticks up to date while the
\* loop was enabled
C7_Witness ==
    /\ last.op = "notationChanged"
    /\ Len(last.notes) = 1
    /\ m_loopBoundaries.enabled
    /\ TuplePairIsMarkers
    /\ m_loopBoundaries.loopOutTick > 0

\* C8: after init() on a loaded score, before any boundary operation or
\* notification, loopBoundaries() is the default region
\* (0, lastScoreTick, disabled).
C8_DefaultRegion ==
    (loaded /\ inited /\ pristine) =>
        m_loopBoundaries = [loopInTick |-> 0, loopOutTick |-> lastTick,
                            enabled |-> FALSE]


\* the tuples of a sequence that differ from the one before them, prev
\* being the one before the first
ChangesOf(prev, tuples) ==
    LET Step[i \in 0 .. Len(tuples)] ==
            IF i = 0 THEN [cur |-> prev, out |-> << >>]
            ELSE IF tuples[i] = Step[i - 1].cur
            THEN Step[i - 1]
            ELSE [cur |-> tuples[i], out |-> Append(Step[i - 1].out, tuples[i])]
    IN  Step[Len(tuples)].out

\* the tuples after each marker write of addLoopIn / addLoopOut, the reset
\* marker first
TuplesWritten(op, tick) ==
    LET lb == m_loopBoundaries
        in0 == Ticks(scoreLoopIn)
        out0 == Ticks(scoreLoopOut)
        T(i, o) == [loopInTick |-> i, loopOutTick |-> o, enabled |-> lb.enabled]
    IN  IF op = "addLoopIn"
        THEN IF tick >= out0
             THEN << T(in0, lastTick), T(tick, lastTick) >>
             ELSE << T(tick, out0) >>
        ELSE IF tick <= in0
             THEN << T(0, out0), T(0, tick) >>
             ELSE << T(in0, Min(tick, lastTick)) >>

\* C21: the loopBoundariesChanged notifications come in the order the score's
\* markers are written and each shows a tuple other than the one of the
\* notification before; an addLoopIn that resets loopOut, or an addLoopOut
\* that resets loopIn, may notify twice, first with only the reset marker
\* applied and then with the final region; at every notification the tuple
\* read through loopBoundaries() has loopInTick <= loopOutTick.
C21_NotificationOrder ==
    [][(inited /\ last'.op \in {"addLoopIn", "addLoopOut"}) =>
         LET notes == last'.notes
         IN  /\ notes = ChangesOf(m_loopBoundaries, TuplesWritten(last'.op, last'.tick))
             /\ Len(notes) <= 2
             /\ \A i \in DOMAIN notes :
                  /\ notes[i] # (IF i = 1 THEN m_loopBoundaries ELSE notes[i - 1])
                  /\ notes[i].loopInTick <= notes[i].loopOutTick]_vars

(* ------------------------- total play time claims --------------------- *)
\* the play time of a score under a repeat-expansion flag: the seconds of the
\* repeat list's last u-tick, and three seconds of tail
PlayTimeWithTail(score, expandRepeats) ==
    (IF expandRepeats THEN score.lastTick + score.repeatExtra ELSE score.lastTick)
        * score.secsPerTick + 3

\* C9: after a recomputation with a loaded score the cached total play time
\* is the seconds of the repeat list's last u-tick under the playback model's
\* repeat flag, plus 3; totalPlayTimeChanged() sent the new value exactly when
\* it differs from the value cached before; a recomputation with no score
\* sends nothing and leaves the cache as it was.
C9_TotalPlayTime ==
    [][ last'.recomputed > 0 =>
          IF loaded'
          THEN /\ m_totalPlayTime' = PlayTimeWithTail(ScoreNow', pm'.playRepeats)
               /\ last'.sent = (IF m_totalPlayTime' # m_totalPlayTime
                                THEN << m_totalPlayTime' >> ELSE << >>)
          ELSE /\ last'.sent = << >>
               /\ m_totalPlayTime' = m_totalPlayTime
      ]_vars

\* a change of the score's content, played with expanded repeats, recomputed
\* the total play time and sent the new value
C9_Witness ==
    /\ loaded
    /\ last.op = "scoreContentChanged"
    /\ last.recomputed = 1
    /\ pm.playRepeats
    /\ repeatExtra > 0
    /\ last.sent = << m_totalPlayTime >>
    /\ m_totalPlayTime = (lastTick + repeatExtra) * secsPerTick + 3

\* C10: once init() has run on a loaded score and every change of the
\* repeat-expansion configuration and of the score's content has been handled,
\* the cached total play time is the one of the current score under the
\* configuration's current repeat-expansion flag.
C10_NeverStale ==
    (inited /\ loaded /\ pending = {}) =>
        m_totalPlayTime = PlayTimeWithTail(ScoreNow, config.playRepeats)

\* a handled change of the repeat-expansion flag that changed the play time
C10_Witness ==
    /\ inited
    /\ loaded
    /\ pending = {}
    /\ last.op = "isPlayRepeatsChanged"
    /\ last.reloads = 1
    /\ last.sent = << m_totalPlayTime >>

\* C19: addLoopBoundary resolves the first-score-tick sentinel to the start
\* of the first measure and the last-score-tick sentinel to the end of the
\* last measure, then does what addLoopIn of the resolved tick does for type
\* LoopIn and what addLoopOut of it does for type LoopOut; for type Unknown it
\* leaves the markers and the controller's tuple alone and notifies nobody.
C19_AddLoopBoundary ==
    [][LET resolved == IF last'.tick = FirstScoreTick THEN 0
                       ELSE IF last'.tick = LastScoreTick THEN lastTick
                       ELSE last'.tick
           Same(m) == /\ scoreLoopIn' = m.in
                      /\ scoreLoopOut' = m.out
                      /\ m_loopBoundaries' = m.lb
                      /\ last'.notes = m.notes
       IN  /\ last'.op = "addLoopBoundaryLoopIn" =>
                \E p \in PosArgs(resolved) :
                    Same(addLoopIn(Machine, resolved, FromTicks(p)))
           /\ last'.op = "addLoopBoundaryLoopOut" =>
                \E p \in PosArgs(resolved), d \in DurArgs(resolved) :
                    Same(addLoopOut(Machine, resolved, FromTicks(p), FromTicks(d)))
           /\ last'.op = "addLoopBoundaryUnknown" =>
                /\ UNCHANGED << scoreLoopIn, scoreLoopOut, m_loopBoundaries >>
                /\ last'.notes = << >>]_vars

\* after init(), addLoopBoundary(LoopOut, LastScoreTick) moved the out marker
\* to the end of the score and the listeners heard of it
C19_Witness ==
    /\ inited
    /\ last.op = "addLoopBoundaryLoopOut"
    /\ last.tick = LastScoreTick
    /\ Ticks(scoreLoopOut) = lastTick
    /\ m_loopBoundaries.loopOutTick = lastTick
    /\ last.notes # << >>

(* -------------------------- configuration claims ---------------------- *)
\* the flag a handler of a configuration notification is about
HandlerFlag ==
    [op \in {"isPlayRepeatsChanged", "isPlayChordSymbolsChanged",
             "playPreviewNotesWithScoreDynamicsChanged",
             "isMetronomeEnabledChanged"} |->
        CASE op = "isPlayRepeatsChanged" -> "playRepeats"
          [] op = "isPlayChordSymbolsChanged" -> "playChordSymbols"
          [] op = "playPreviewNotesWithScoreDynamicsChanged" -> "previewDynamics"
          [] OTHER -> "metronome"]

\* C22: after init(), once a change notification of one of the four
\* configuration flags has been handled, the playback model's copy of that
\* flag is the configuration's value; the playback model is reloaded only by
\* a play-repeats or chord-symbols notification whose value differs from the
\* model's copy, never by a redundant notification nor by a change of the
\* metronome or preview-dynamics flag.
C22_ConfigFlags ==
    [][/\ inited' => \A f \in FlagNames \ pending' : pm'[f] = config'[f]
       /\ last'.op \in DOMAIN HandlerFlag =>
            LET f == HandlerFlag[last'.op]
            IN  /\ pm'[f] = config[f]
                /\ \A g \in FlagNames \ {f} : pm'[g] = pm[g]
                /\ last'.reloads =
                     IF /\ f \in {"playRepeats", "playChordSymbols"}
                        /\ config[f] # pm[f]
                     THEN 1 ELSE 0
       /\ last'.op \notin (DOMAIN HandlerFlag \cup {"reload"}) =>
            last'.reloads = 0]_vars

\* a chord-symbols notification whose value differed was handled: the model
\* was reloaded once and every flag of the model is the configuration's
C22_Witness ==
    /\ inited
    /\ last.op = "isPlayChordSymbolsChanged"
    /\ last.reloads = 1
    /\ pending = {}
    /\ pm = config

(* ------------------- routing, position and tempo claims --------------- *)
\* C14: triggerControllers sends nothing when the list is empty or the staff
\* index names no staff; otherwise it sends once, to the offstream channel of
\* the track made of the staff's part and that part's instrument at the tick:
\* one event map with the single key 0 holding the list, without flushing.
C14_TriggerControllers ==
    [][last'.op = "triggerControllers" =>
         LET list == res'.events
             idx == res'.staffIdx
             sends == res'.sends
             part == IF idx = 0 THEN "P1" ELSE "P2"
             instrument == IF idx = 0
                           THEN (IF last'.tick >= 1 THEN "piccolo" ELSE "flute")
                           ELSE "oboe"
         IN  IF list = << >> \/ idx \notin 0 .. (NumStaves - 1)
             THEN sends = << >>
             ELSE /\ Len(sends) = 1
                  /\ sends[1].track = << part, instrument >>
                  /\ DOMAIN sends[1].events = {0}
                  /\ sends[1].events[0] = list
                  /\ sends[1].flush = FALSE]_vars

\* two events went to the first staff's part, after its instrument change
C14_Witness ==
    /\ res.op = "triggerControllers"
    /\ Len(res.events) = 2
    /\ res.staffIdx = 0
    /\ last.tick = 1
    /\ Len(res.sends) = 1
    /\ res.sends[1].track = << "P1", "piccolo" >>
    /\ res.sends[1].events[0] = res.events

\* C15: playPositionTickByRawTick fails with Undefined without a score and
\* otherwise gives the repeat list's u-tick of the tick under the playback
\* model's repeat-expansion flag; playPositionTickByElement fails with
\* Undefined for a null element or without a score and otherwise gives what
\* playPositionTickByRawTick gives for the element's tick.
C15_PlayPosition ==
    [][/\ last'.op = "playPositionTickByRawTick" =>
            res'.ret = IF ~loaded
                       THEN [ok |-> FALSE, val |-> 0]
                       ELSE [ok |-> TRUE,
                             val |-> Tick2UTick(RepeatSegments(ScoreNow, pm.playRepeats),
                                                last'.tick)]
       /\ last'.op = "playPositionTickByElement" =>
            res'.ret = IF last'.arg \/ ~loaded
                       THEN [ok |-> FALSE, val |-> 0]
                       ELSE playPositionTickByRawTick(ScoreNow, pm, last'.tick)]_vars

\* an element past the repeated tick of a score played with its repeats
C15_Witness ==
    /\ loaded
    /\ res.op = "playPositionTickByElement"
    /\ pm.playRepeats
    /\ repeatExtra > 0
    /\ last.tick >= 1
    /\ res.ret = [ok |-> TRUE, val |-> last.tick + repeatExtra]

\* C16: with repeat expansion off in the configuration, and the change
\* handled, playPositionTickByRawTick succeeds with the tick itself for every
\* tick of a loaded score, whatever repeats the score has.
C16_IdentityUnexpanded ==
    [][(/\ last'.op = "playPositionTickByRawTick"
        /\ loaded
        /\ inited
        /\ pending = {}
        /\ ~config.playRepeats) =>
           res'.ret = [ok |-> TRUE, val |-> last'.tick]]_vars

\* the last tick of a score with repeats, asked for with expansion off
C16_Witness ==
    /\ loaded
    /\ inited
    /\ pending = {}
    /\ ~config.playRepeats
    /\ repeatExtra > 0
    /\ res.op = "playPositionTickByRawTick"
    /\ last.tick = lastTick
    /\ res.ret = [ok |-> TRUE, val |-> lastTick]

\* C17: setTempoMultiplier changes nothing (no new multiplier, no update of
\* the repeat list's tempo, no reload, no notification) without a score or
\* when the tempo map refuses the value; when the tempo map takes it, the
\* repeat list's tempo is updated and then the playback model reloaded, once
\* each.
C17_SetTempoMultiplier ==
    [][last'.op = "setTempoMultiplier" =>
         IF ~loaded \/ last'.tick <= 0
         THEN /\ UNCHANGED programVars
              /\ res'.log = << >>
              /\ last'.reloads = 0
              /\ last'.sent = << >>
         ELSE /\ tempoMul' = last'.tick
              /\ res'.log = << "updateRepeatListTempo", "reload" >>
              /\ last'.reloads = 1]_vars

\* half the tempo was taken: the repeat list's tempo was updated, the model
\* reloaded, and the listeners got the new total play time
C17_Witness ==
    /\ loaded
    /\ inited
    /\ last.op = "setTempoMultiplier"
    /\ last.tick = 1
    /\ tempoMul = 1
    /\ res.log = << "updateRepeatListTempo", "reload" >>
    /\ last.sent = << m_totalPlayTime >>

(* ------------------------------ no score ------------------------------ *)
\* C18: without a score, every operation that needs the score (the time
\* conversions, the play-position queries, beat, beatToRawTick,
\* multipliedTempo, tempoMultiplier, setTempoMultiplier, addLoopBoundary,
\* addLoopIn, addLoopOut, triggerControllers, addSoundFlags and the
\* re-derivation of the loop boundaries on a score-changed notification)
\* completes with Undefined or a default or zero value, leaves all state as it
\* was and never uses the missing score.
C18_NoScoreSafe ==
    [][~loaded =>
         /\ ~res'.nullScoreUse
         /\ UNCHANGED programVars
         /\ res'.ret \in {Undefined, RetOk(0), RetOk(TempoUnit)}
         /\ res'.beat = DefaultMeasureBeat
         /\ res'.sends = << >>]_vars

(* --------------------------- sound flag claims ------------------------ *)
\* the staff texts of the scanned segments that carry a flag on these tracks
FlaggedOnTracks(flags, trackIdSet) ==
    {a \in StaffTexts :
        /\ \E i \in DOMAIN SegmentAnnotations :
             \E j \in DOMAIN SegmentAnnotations[i] : SegmentAnnotations[i][j] = a
        /\ flags[a] > 0
        /\ TrackOf[a] \in trackIdSet}

\* C11, as stated: every call of removeSoundFlags reloads the playback data
\* exactly once and notifies of the changed score exactly once, also when no
\* staff text on the given tracks carried a flag and when the set of tracks is
\* empty.
C11_RemoveAlways ==
    res.op = "removeSoundFlags" => (res.reloads = 1 /\ res.notified = 1)

\* C11, amended: a call of removeSoundFlags reloads the playback data exactly
\* once and notifies of the changed score exactly once when at least one staff
\* text on the given tracks carries a sound flag; when none does, or the set of
\* tracks is empty, it neither reloads nor notifies and changes nothing.
C11_RemoveOnFlag ==
    [][last'.op = "removeSoundFlags" =>
         IF FlaggedOnTracks(soundFlags, res'.tracks) # {}
         THEN /\ res'.reloads = 1
              /\ res'.notified = 1
              /\ last'.reloads = 1
              /\ \A a \in FlaggedOnTracks(soundFlags, res'.tracks) :
                   soundFlags'[a] = 0
         ELSE /\ res'.reloads = 0
              /\ res'.notified = 0
              /\ last'.reloads = 0
              /\ last'.notes = << >>
              /\ UNCHANGED programVars]_vars

\* removeSoundFlags on a track without flagged staff texts did nothing
C11_Witness ==
    /\ res.op = "removeSoundFlags"
    /\ res.tracks = {"flute"}
    /\ res.reloads = 0
    /\ res.notified = 0
    /\ soundFlags[6] = 1

\* C12: after addSoundFlags every staff text of the list, and every staff text
\* linked to one, has a sound flag; the score-changed notification fires once
\* if at least one listed staff text had no flag before, and not at all if the
\* list is empty or every listed staff text had its flag already.
C12_AddSoundFlags ==
    [][last'.op = "addSoundFlags" =>
         LET list == res'.list
             listed == {list[i] : i \in DOMAIN list} \ {NullText}
         IN  /\ \A a \in listed :
                  /\ HasSoundFlag(soundFlags', a)
                  /\ \A b \in LinksOf[a] \cap StaffTexts : HasSoundFlag(soundFlags', b)
             /\ res'.notified =
                  IF \E a \in listed : ~HasSoundFlag(soundFlags, a) THEN 1 ELSE 0]_vars

\* two unrelated staff texts were listed, a flag was added, one notification
\* fired and the linked copy in the part got its flag
C12_Witness ==
    /\ res.op = "addSoundFlags"
    /\ res.list = << 3, 6 >>
    /\ res.notified = 1
    /\ soundFlags[3] = 1
    /\ soundFlags[5] = 1
    /\ soundFlags[6] = 1

\* C13: from a score whose linked staff texts agree, after any calls of
\* addSoundFlags and removeSoundFlags every staff text carries at most one
\* sound flag and the staff texts of one link group all carry one or none.
C13_Lockstep ==
    /\ \A a \in StaffTexts : soundFlags[a] <= 1
    /\ LockstepFlags(soundFlags)

\* a list with a staff text and its linked copy added flags
C13_Witness ==
    /\ res.op = "addSoundFlags"
    /\ res.list = << 1, 2 >>
    /\ res.notified = 1
    /\ soundFlags[1] = 1
    /\ soundFlags[2] = 1

\* the segment an annotation of the score sits on
SegmentOf(a) ==
    CHOOSE i \in DOMAIN SegmentAnnotations :
        \E j \in DOMAIN SegmentAnnotations[i] : SegmentAnnotations[i][j] = a

\* C20: collectStaffText returns the empty sequence without visiting a segment
\* when the set of tracks is empty; otherwise exactly the staff texts on the
\* chord/rest segments whose hasSoundFlag() equals withSoundFlags and whose
\* track is in the set, each once, in the order of the segments; it modifies
\* nothing.
C20_CollectStaffText ==
    [][last'.op = "collectStaffText" =>
         LET r == res'.result
         IN  /\ UNCHANGED programVars
             /\ IF res'.tracks = {}
                THEN r = << >> /\ res'.scanned = 0
                ELSE /\ {r[i] : i \in DOMAIN r} =
                          {a \in StaffTexts :
                              /\ \E i \in DOMAIN SegmentAnnotations :
                                   \E j \in DOMAIN SegmentAnnotations[i] :
                                       SegmentAnnotations[i][j] = a
                              /\ (soundFlags[a] > 0) = res'.with
                              /\ TrackOf[a] \in res'.tracks}
                     /\ \A i \in DOMAIN r, j \in DOMAIN r :
                          i < j => (r[i] # r[j] /\ SegmentOf(r[i]) <= SegmentOf(r[j]))]_vars

\* the flagged staff texts of one of two tracks were collected, past an
\* annotation that is no staff text and a staff text of the other track
C20_Witness ==
    /\ res.op = "collectStaffText"
    /\ res.tracks = {"flute"}
    /\ res.with
    /\ res.result = << 1, 3 >>
    /\ soundFlags[2] = 1

====
